---- MODULE Spec2Model ----
(***************************************************************************)
(* A model of src/utils.py: vector-store provisioning (get_vector_store,   *)
(* create_vector_store, add_documents_to_vector_store) against a hosted    *)
(* index provider, whitespace normalisation (clean_text) and prompt        *)
(* assembly (getPromptTemplate).                                           *)
(*                                                                         *)
(* Spec       the provisioning state machine, one step per statement that  *)
(*            talks to the provider or to the file system.  Every external *)
(*            call may raise; nothing in utils.py catches an exception.    *)
(* SpecClean  clean_text applied once and twice to every bounded string.   *)
(* SpecPrompt getPromptTemplate followed by the template's substitution.   *)
(***************************************************************************)
EXTENDS Integers, Sequences, FiniteSets, TLC

(***************************************************************************)
(* Bounds of the model.                                                    *)
(***************************************************************************)
MaxCalls == 3
MaxPdfs == 2
ChunksPerPdf == 2
MaxLen == 5
MaxHist == 3
MaxArg == 2

(***************************************************************************)
(* Program constants.                                                      *)
(***************************************************************************)
Dimension == 384

Metric == "cosine"

Names == {"n1", "n2"}

None == "None"

VARIABLES
    \* the provider (Pinecone): existing indexes, their readiness, their
    \* configuration and their contents
    indexes, ready, conf, docs,
    \* the running get_vector_store call: position, arguments, locals
    pc, name, pdfs, existing, chunks, i, result, error,
    \* history of the calls
    nCalls, did, failedAt, existedAtCall, docsAtCall, createdNow,
    createEntered, createOk, addCalls, callsEnded, orphan,
    \* clean_text
    text, once, twice, stage,
    \* getPromptTemplate
    context, chat_history, question, template, prompt, ppc

provider == <<indexes, ready, conf, docs>>

locals == <<name, pdfs, existing, chunks, i>>

counters == <<createEntered, createOk, addCalls, callsEnded, orphan>>

percall == <<nCalls, existedAtCall, docsAtCall>>

vsVars == <<provider, pc, locals, result, error, did, failedAt, createdNow,
            counters, percall>>

cleanVars == <<text, once, twice, stage>>

promptVars == <<context, chat_history, question, template, prompt, ppc>>

others == <<cleanVars, promptVars>>

vars == <<vsVars, cleanVars, promptVars>>

(***************************************************************************)
(* Values.                                                                 *)
(***************************************************************************)
\* The pdf_files argument: k file names, here the numbers 1..k.
PdfList(k) == [j \in 1..k |-> j]

\* create_chunks(pdf): the chunks of one PDF, in page order.
create_chunks(pdf) == [c \in 1..ChunksPerPdf |-> <<pdf, c>>]

RECURSIVE AllChunks(_)
\* The list add_documents_to_vector_store builds from a list of PDFs.
AllChunks(ps) ==
    IF ps = <<>> THEN <<>>
    ELSE create_chunks(Head(ps)) \o AllChunks(Tail(ps))

\* A chunk some earlier, out-of-band ingestion left in a pre-existing index.
OldChunk == <<0, 1>>

NoConf == [dimension |-> 0, metric |-> None]

Ended == pc \in {"done", "raised"}

\* An external call raises: the exception leaves get_vector_store at once.
Raise(step) ==
    /\ pc' = "raised"
    /\ result' = None
    /\ error' = "external"
    /\ failedAt' = step

\* Bookkeeping when the running call raises: a call that created its index
\* and then failed leaves the index behind.
Orphaned(how) ==
    /\ callsEnded' = [callsEnded EXCEPT ![name] = @ + 1]
    /\ orphan' = IF createdNow THEN [orphan EXCEPT ![name] = how] ELSE orphan

(***************************************************************************)
(* The provisioning state machine.                                         *)
(***************************************************************************)
VsInit ==
    /\ indexes \in SUBSET Names
    /\ ready = [n \in Names |-> n \in indexes]
    /\ conf = [n \in Names |->
                 IF n \in indexes
                 THEN [dimension |-> Dimension, metric |-> Metric]
                 ELSE NoConf]
    /\ docs = [n \in Names |-> IF n \in indexes THEN <<OldChunk>> ELSE <<>>]
    /\ pc = "idle"
    /\ name = "n1"
    /\ pdfs = <<>>
    /\ existing = {}
    /\ chunks = <<>>
    /\ i = 1
    /\ result = None
    /\ error = "none"
    /\ nCalls = 0
    /\ did = {}
    /\ failedAt = "none"
    /\ existedAtCall = FALSE
    /\ docsAtCall = <<>>
    /\ createdNow = FALSE
    /\ createEntered = [n \in Names |-> 0]
    /\ createOk = [n \in Names |-> 0]
    /\ addCalls = [n \in Names |-> 0]
    /\ callsEnded = [n \in Names |-> 0]
    /\ orphan = [n \in Names |-> "no"]

\* The caller invokes get_vector_store(n, PdfList(k)); one call at a time.
Call(n, k) ==
    /\ pc \in {"idle", "done", "raised"}
    /\ nCalls < MaxCalls
    /\ pc' = "setup"
    /\ name' = n
    /\ pdfs' = PdfList(k)
    /\ existing' = {}
    /\ chunks' = <<>>
    /\ i' = 1
    /\ result' = None
    /\ error' = "none"
    /\ nCalls' = nCalls + 1
    /\ did' = {}
    /\ failedAt' = "none"
    /\ existedAtCall' = (n \in indexes)
    /\ docsAtCall' = docs[n]
    /\ createdNow' = FALSE
    /\ UNCHANGED <<provider, counters>>
    /\ UNCHANGED others

\* Pinecone(api_key=...) and getEmbeddingModel().
Setup ==
    /\ pc = "setup"
    /\ \/ /\ pc' = "list"
          /\ UNCHANGED <<result, error, failedAt, counters>>
       \/ /\ Raise("setup")
          /\ Orphaned("before_add")
          /\ UNCHANGED <<createEntered, createOk, addCalls>>
    /\ did' = did \cup {"setup"}
    /\ UNCHANGED <<provider, locals, createdNow, percall>>
    /\ UNCHANGED others

\* A handler that hides a failed listing: the listing counts as empty.
ListIndexesSwallow ==
    /\ pc = "list"
    /\ \/ /\ existing' = indexes
          /\ failedAt' = failedAt
       \/ /\ existing' = {}
          /\ failedAt' = "list"
    /\ pc' = "check"
    /\ did' = did \cup {"list"}
    /\ UNCHANGED <<provider, name, pdfs, chunks, i, result, error,
                   createdNow, counters, percall>>
    /\ UNCHANGED others

\* existing_indexes = [info["name"] for info in pc.list_indexes()]
ListIndexes ==
    /\ pc = "list"
    /\ \/ /\ existing' = indexes
          /\ pc' = "check"
          /\ UNCHANGED <<result, error, failedAt, counters>>
       \/ /\ Raise("list")
          /\ Orphaned("before_add")
          /\ UNCHANGED <<existing, createEntered, createOk, addCalls>>
    /\ did' = did \cup {"list"}
    /\ UNCHANGED <<provider, name, pdfs, chunks, i, createdNow, percall>>
    /\ UNCHANGED others

\* The test inverted: an existing index is created again.
CheckExistsInverted ==
    /\ pc = "check"
    /\ pc' = IF name \in existing THEN "create" ELSE "index"
    /\ createEntered' = IF name \in existing
                        THEN [createEntered EXCEPT ![name] = @ + 1]
                        ELSE createEntered
    /\ UNCHANGED <<provider, locals, result, error, did, failedAt,
                   createdNow, createOk, addCalls, callsEnded, orphan,
                   percall>>
    /\ UNCHANGED others

\* An existing index is ingested into again.
CheckExistsReingest ==
    /\ pc = "check"
    /\ pc' = IF name \notin existing THEN "create" ELSE "load"
    /\ createEntered' = IF name \notin existing
                        THEN [createEntered EXCEPT ![name] = @ + 1]
                        ELSE createEntered
    /\ UNCHANGED <<provider, locals, result, error, did, failedAt,
                   createdNow, createOk, addCalls, callsEnded, orphan,
                   percall>>
    /\ UNCHANGED others

\* if pc_index_name not in existing_indexes: create_vector_store(...)
CheckExists ==
    /\ pc = "check"
    /\ pc' = IF name \notin existing THEN "create" ELSE "index"
    /\ createEntered' = IF name \notin existing
                        THEN [createEntered EXCEPT ![name] = @ + 1]
                        ELSE createEntered
    /\ UNCHANGED <<provider, locals, result, error, did, failedAt,
                   createdNow, createOk, addCalls, callsEnded, orphan,
                   percall>>
    /\ UNCHANGED others

\* pc.create_index(name, dimension=384, metric="cosine", spec=...).  The
\* provider refuses a name it already has.  A call that raises may or may
\* not have created the index; a created index may or may not be ready yet.
CreateIndex ==
    /\ pc = "create"
    /\ \/ /\ name \notin indexes
          /\ \E r \in BOOLEAN :
                ready' = [ready EXCEPT ![name] = r]
          /\ indexes' = indexes \cup {name}
          /\ conf' = [conf EXCEPT
                        ![name] = [dimension |-> Dimension, metric |-> Metric]]
          /\ docs' = [docs EXCEPT ![name] = <<>>]
          /\ pc' = "poll"
          /\ createdNow' = TRUE
          /\ createOk' = [createOk EXCEPT ![name] = @ + 1]
          /\ UNCHANGED <<result, error, failedAt, callsEnded, orphan>>
       \/ /\ Raise("create")
          /\ \/ UNCHANGED provider
             \/ /\ name \notin indexes
                /\ indexes' = indexes \cup {name}
                /\ ready' = [ready EXCEPT ![name] = FALSE]
                /\ conf' = [conf EXCEPT
                        ![name] = [dimension |-> Dimension, metric |-> Metric]]
                /\ docs' = [docs EXCEPT ![name] = <<>>]
          /\ Orphaned("before_add")
          /\ UNCHANGED <<createdNow, createOk>>
    /\ did' = did \cup {"create"}
    /\ UNCHANGED <<locals, createEntered, addCalls, percall>>
    /\ UNCHANGED others

\* The provider finishes initialising an index.
ProviderReady(n) ==
    /\ n \in indexes
    /\ ~ready[n]
    /\ ready' = [ready EXCEPT ![n] = TRUE]
    /\ UNCHANGED <<indexes, conf, docs, pc, locals, result, error, did,
                   failedAt, createdNow, counters, percall>>
    /\ UNCHANGED others

\* while not pc.describe_index(name).status['ready']:
DescribeIndex ==
    /\ pc = "poll"
    /\ \/ /\ pc' = IF ready[name] THEN "open" ELSE "sleep"
          /\ UNCHANGED <<result, error, failedAt, counters>>
       \/ /\ Raise("describe")
          /\ Orphaned("before_add")
          /\ UNCHANGED <<createEntered, createOk, addCalls>>
    /\ did' = did \cup {"describe"}
    /\ UNCHANGED <<provider, locals, createdNow, percall>>
    /\ UNCHANGED others

\* `from datetime import time`: the name time is the class datetime.time,
\* which has no attribute sleep, so evaluating time.sleep raises.
SleepOutcome == "AttributeError"

\* time.sleep(1), the body of the polling loop.
Sleep ==
    /\ pc = "sleep"
    /\ IF SleepOutcome = "slept"
       THEN /\ pc' = "poll"
            /\ UNCHANGED <<result, error, counters>>
       ELSE /\ pc' = "raised"
            /\ result' = None
            /\ error' = SleepOutcome
            /\ Orphaned("before_add")
            /\ UNCHANGED <<createEntered, createOk, addCalls>>
    /\ did' = did \cup {"sleep"}
    /\ UNCHANGED <<provider, locals, failedAt, createdNow, percall>>
    /\ UNCHANGED others

\* index = pc.Index(name); vector_store = PineconeVectorStore(...)
OpenIndex ==
    /\ pc = "open"
    /\ \/ /\ pc' = "load"
          /\ UNCHANGED <<result, error, failedAt, counters>>
       \/ /\ Raise("open")
          /\ Orphaned("before_add")
          /\ UNCHANGED <<createEntered, createOk, addCalls>>
    /\ did' = did \cup {"open"}
    /\ UNCHANGED <<provider, locals, createdNow, percall>>
    /\ UNCHANGED others

\* Each PDF's chunks are added to the index as soon as they are loaded.
LoadPdfEager ==
    /\ pc = "load"
    /\ i <= Len(pdfs)
    /\ \/ /\ docs' = [docs EXCEPT ![name] = @ \o create_chunks(pdfs[i])]
          /\ chunks' = chunks
          /\ i' = i + 1
          /\ pc' = "load"
          /\ UNCHANGED <<result, error, failedAt, counters>>
       \/ /\ Raise("load")
          /\ Orphaned("before_add")
          /\ UNCHANGED <<docs, chunks, i, createEntered, createOk, addCalls>>
    /\ did' = did \cup {"load"}
    /\ UNCHANGED <<indexes, ready, conf, name, pdfs, existing, createdNow,
                   percall>>
    /\ UNCHANGED others

\* for pdf in pdfs: chunks.extend(create_chunks(pdf))
LoadPdf ==
    /\ pc = "load"
    /\ i <= Len(pdfs)
    /\ \/ /\ chunks' = chunks \o create_chunks(pdfs[i])
          /\ i' = i + 1
          /\ pc' = "load"
          /\ UNCHANGED <<result, error, failedAt, counters>>
       \/ /\ Raise("load")
          /\ Orphaned("before_add")
          /\ UNCHANGED <<chunks, i, createEntered, createOk, addCalls>>
    /\ did' = did \cup {"load"}
    /\ UNCHANGED <<provider, name, pdfs, existing, createdNow, percall>>
    /\ UNCHANGED others

\* vector_store.add_documents(chunks): one call with every chunk.  A call
\* that raises may have stored any leading part of the chunks.
AddDocuments ==
    /\ pc = "load"
    /\ i > Len(pdfs)
    /\ \/ /\ docs' = [docs EXCEPT ![name] = @ \o chunks]
          /\ pc' = "index"
          /\ UNCHANGED <<result, error, failedAt, callsEnded, orphan>>
       \/ /\ \E k \in 0..Len(chunks) :
                docs' = [docs EXCEPT ![name] = @ \o SubSeq(chunks, 1, k)]
          /\ Raise("add")
          /\ Orphaned("in_add")
    /\ addCalls' = [addCalls EXCEPT ![name] = @ + 1]
    /\ did' = did \cup {"add"}
    /\ UNCHANGED <<indexes, ready, conf, locals, createdNow, createEntered,
                   createOk, percall>>
    /\ UNCHANGED others

\* index = pc.Index(name); return PineconeVectorStore(index, embedding)
GetIndex ==
    /\ pc = "index"
    /\ \/ /\ pc' = "done"
          /\ result' = name
          /\ callsEnded' = [callsEnded EXCEPT ![name] = @ + 1]
          /\ UNCHANGED <<error, failedAt, orphan>>
       \/ /\ Raise("index")
          /\ Orphaned("after_add")
    /\ did' = did \cup {"index"}
    /\ UNCHANGED <<provider, locals, createdNow, createEntered, createOk,
                   addCalls, percall>>
    /\ UNCHANGED others

VsNext ==
    \/ \E n \in Names, k \in 0..MaxPdfs : Call(n, k)
    \/ Setup
    \/ ListIndexes
    \/ CheckExists
    \/ CreateIndex
    \/ \E n \in Names : ProviderReady(n)
    \/ DescribeIndex
    \/ Sleep
    \/ OpenIndex
    \/ LoadPdf
    \/ AddDocuments
    \/ GetIndex

(***************************************************************************)
(* Properties of the provisioning state machine.                           *)
(***************************************************************************)
IngestSteps == {"create", "describe", "sleep", "open", "load", "add"}

\* C1: a call for a name the provider does not have creates the index
\* (dimension 384, cosine), polls until it is ready, only then adds the chunks
\* of all PDFs and returns a handle: a call in which no external call raised
\* ends returning the handle, with every PDF ingested, and never adds while
\* the index is not ready.
C1_CreatePollIngest ==
    (pc # "idle" /\ ~existedAtCall /\ failedAt = "none")
        => /\ Ended => /\ pc = "done"
                       /\ result = name
                       /\ name \in indexes
                       /\ conf[name] = [dimension |-> Dimension,
                                        metric |-> Metric]
                       /\ docs[name] = AllChunks(pdfs)
           /\ "add" \in did => ready[name]

\* C2: a call for a name the provider already has creates nothing, loads no
\* PDF, adds no document, leaves the index contents as they were and returns
\* a handle to the index, whatever pdfs is; it can end otherwise only by an
\* external call of the short path raising.
C2_ExistingIndexUntouched ==
    (pc # "idle" /\ existedAtCall)
        => /\ did \cap IngestSteps = {}
           /\ ~createdNow
           /\ name \in indexes
           /\ docs[name] = docsAtCall
           /\ pc = "done" => result = name
           /\ pc = "raised" => failedAt \in {"setup", "list", "index"}

C2_Witness ==
    /\ existedAtCall
    /\ pc = "done"
    /\ result = name
    /\ Len(pdfs) > 0
    /\ docs[name] = <<OldChunk>>

\* C3 as stated: over any sequence of calls the index-creation path and the
\* ingestion execute at most once per index name.
C3_CreationPathOnce ==
    \A n \in Names : createEntered[n] <= 1 /\ addCalls[n] <= 1

\* C3 amended: over any sequence of calls the index is created at most once
\* and add_documents is called at most once per index name, and the creation
\* path is entered only for a name the provider does not have (so it is entered
\* again only after a create_index that raised without creating the index).
C3_IngestOnce ==
    /\ \A n \in Names :
          /\ createOk[n] <= 1
          /\ addCalls[n] <= 1
          /\ addCalls[n] <= createOk[n]
          /\ createOk[n] = 1 => n \in indexes
    /\ pc = "create" => name \notin indexes

C3_Witness ==
    /\ pc = "done"
    /\ existedAtCall
    /\ callsEnded[name] >= 2
    /\ addCalls[name] = 1
    /\ createEntered[name] = 1

\* C4: while the provider reports the index not ready the call stays in its
\* polling loop: after a poll that saw "not ready" it sleeps and polls again,
\* it neither fails nor goes on.
C4_KeepsPolling ==
    [][pc = "sleep" => pc' \in {"sleep", "poll"}]_vars

\* C9: a failure of an external step leaves get_vector_store at once, with
\* no handle returned; after it the call executes no further step, and nothing
\* retries or undoes what was done (only a new call moves the program again).
C9_FailurePropagates ==
    [][/\ failedAt' # "none" => (pc' = "raised" /\ result' = None)
       /\ (pc = "raised" /\ nCalls' = nCalls)
             => /\ pc' = "raised"
                /\ result' = None
                /\ did' = did
                /\ indexes' = indexes
                /\ docs' = docs
                /\ conf' = conf]_vars

C9_Witness ==
    /\ pc = "raised"
    /\ failedAt = "load"
    /\ createdNow
    /\ result = None
    /\ i = 2

C10_State ==
    /\ "add" \in did => chunks = AllChunks(pdfs)
    /\ (pc = "raised" /\ failedAt = "add" /\ createdNow)
          => \E k \in 0..Len(chunks) : docs[name] = SubSeq(chunks, 1, k)
    /\ \A n \in Names :
          orphan[n] # "no"
             => /\ n \in indexes
                /\ orphan[n] = "before_add" => docs[n] = <<>>
    /\ (pc # "idle" /\ existedAtCall /\ orphan[name] # "no")
          => /\ did \cap IngestSteps = {}
             /\ docs[name] = docsAtCall
             /\ pc = "done" => result = name

C10_Step ==
    \A n \in Names :
        orphan[n] # "no" => /\ docs'[n] = docs[n]
                            /\ orphan'[n] = orphan[n]
                            /\ n \in indexes'

WhiteSpace == {" ", "\t", "\n"}

Letters == {"a", "b"}

CharSet == Letters \cup WhiteSpace

IsSpace(c) == c \in WhiteSpace

Strings(alphabet, n) == UNION {[1..k -> alphabet] : k \in 0..n}

RECURSIVE lstrip(_)
\* The string without its leading whitespace.
lstrip(s) ==
    IF s # <<>> /\ IsSpace(Head(s)) THEN lstrip(Tail(s)) ELSE s

RECURSIVE rstrip(_)
\* The string without its trailing whitespace.
rstrip(s) ==
    IF s # <<>> /\ IsSpace(s[Len(s)])
    THEN rstrip(SubSeq(s, 1, Len(s) - 1))
    ELSE s

\* Only the leading whitespace is removed.
lstrip_only(s) == lstrip(s)

\* text.strip()
strip(s) == rstrip(lstrip(s))

RECURSIVE re_sub_pairs(_)
\* Only pairs of whitespace characters are replaced: re.sub(r'\s\s', ' ', s).
re_sub_pairs(s) ==
    IF s = <<>> THEN <<>>
    ELSE IF Len(s) >= 2 /\ IsSpace(s[1]) /\ IsSpace(s[2])
         THEN <<" ">> \o re_sub_pairs(SubSeq(s, 3, Len(s)))
         ELSE <<Head(s)>> \o re_sub_pairs(Tail(s))

RECURSIVE re_sub_ws(_)
\* re.sub(r'\s+', ' ', s): scanning from the left, every maximal run of
\* whitespace is replaced by one space, every other character is copied.
re_sub_ws(s) ==
    IF s = <<>> THEN <<>>
    ELSE IF IsSpace(Head(s))
         THEN <<" ">> \o re_sub_ws(lstrip(s))
         ELSE <<Head(s)>> \o re_sub_ws(Tail(s))

clean_text(t) == strip(re_sub_ws(t))

CleanIdle ==
    /\ text = <<>>
    /\ once = <<>>
    /\ twice = <<>>
    /\ stage = "off"

PromptIdle ==
    /\ context = <<>>
    /\ chat_history = <<>>
    /\ question = <<>>
    /\ template = <<>>
    /\ prompt = [ok |-> FALSE, text |-> <<>>]
    /\ ppc = "off"

VsIdle == VsInit /\ indexes = {}

CleanInit ==
    /\ text \in Strings(CharSet, MaxLen)
    /\ once = <<>>
    /\ twice = <<>>
    /\ stage = "input"

\* doc.page_content = clean_text(doc.page_content)
CleanOnce ==
    /\ stage = "input"
    /\ once' = clean_text(text)
    /\ stage' = "once"
    /\ UNCHANGED <<text, twice, vsVars, promptVars>>

\* clean_text applied to its own result.
CleanTwice ==
    /\ stage = "once"
    /\ twice' = clean_text(once)
    /\ stage' = "twice"
    /\ UNCHANGED <<text, once, vsVars, promptVars>>

CleanNext == CleanOnce \/ CleanTwice

InitClean == VsIdle /\ CleanInit /\ PromptIdle

SpecClean == InitClean /\ [][CleanNext]_vars

RECURSIVE NonSpace(_)
\* The characters of s that are not whitespace, in order.
NonSpace(s) ==
    IF s = <<>> THEN <<>>
    ELSE IF IsSpace(Head(s)) THEN NonSpace(Tail(s))
         ELSE <<Head(s)>> \o NonSpace(Tail(s))

RECURSIVE WordCount(_)
\* The number of maximal runs of characters that are not whitespace.
WordCount(s) ==
    IF s = <<>> THEN 0
    ELSE IF IsSpace(Head(s)) THEN WordCount(Tail(s))
         ELSE IF Len(s) = 1 \/ IsSpace(s[2]) THEN 1 + WordCount(Tail(s))
              ELSE WordCount(Tail(s))

RECURSIVE WordOf(_, _)
\* For each character of s that is not whitespace, the number of the word it
\* lies in, counting words from w.
WordOf(s, w) ==
    IF s = <<>> THEN <<>>
    ELSE IF IsSpace(Head(s)) THEN WordOf(Tail(s), w)
         ELSE IF Len(s) = 1 \/ IsSpace(s[2])
              THEN <<w>> \o WordOf(Tail(s), w + 1)
              ELSE <<w>> \o WordOf(Tail(s), w)

\* C5: clean_text is idempotent: clean_text(clean_text(s)) = clean_text(s).
C5_Idempotent == stage = "twice" => twice = once

C5_Witness ==
    /\ stage = "twice"
    /\ once # text
    /\ Len(once) >= 3
    /\ \E j \in 1..Len(once) : once[j] = " "

\* C6: clean_text(s) has no leading or trailing whitespace, no whitespace
\* other than a single space, no two adjacent spaces, and the same characters
\* other than whitespace as s, in the same order and grouped into the same
\* words (each whitespace run between two of them has become one space).
C6_Normalised ==
    stage \in {"once", "twice"}
        => /\ once # <<>> => (~IsSpace(once[1]) /\ ~IsSpace(once[Len(once)]))
           /\ \A j \in 1..Len(once) : IsSpace(once[j]) => once[j] = " "
           /\ \A j \in 1..(Len(once) - 1) :
                 ~(once[j] = " " /\ once[j + 1] = " ")
           /\ NonSpace(once) = NonSpace(text)
           /\ WordOf(once, 1) = WordOf(text, 1)
           /\ Len(once) = Len(NonSpace(text))
                          + (IF WordCount(text) = 0 THEN 0
                             ELSE WordCount(text) - 1)

C6_Witness ==
    /\ stage = "once"
    /\ Len(text) = 5
    /\ IsSpace(text[1])
    /\ text[3] = "\t"
    /\ text[4] = "\n"
    /\ once = <<"a", " ", "b">>

(***************************************************************************)
(* getPromptTemplate and the substitution of the template.                 *)
(***************************************************************************)
ContextField == <<"c", "o", "n", "t", "e", "x", "t">>

QuestionField == <<"q", "u", "e", "s", "t", "i", "o", "n">>

\* The fixed text of the template, which holds no brace: the instructions up
\* to "Context:", the line breaks around the history, "user: ", "Assistant:".
TemplateHead == <<"I">>

TemplateGap == <<"\n">>

TemplateUser == <<"U">>

TemplateTail == <<"A">>

\* The template string getPromptTemplate builds: the history is put into
\* the template text itself, by an f-string, before any substitution.
TemplateText(history) ==
    TemplateHead \o <<"{">> \o ContextField \o <<"}">> \o TemplateGap
        \o history \o TemplateGap
        \o TemplateUser \o <<"{">> \o QuestionField \o <<"}">> \o TemplateTail

Failed(kind) == [ok |-> FALSE, text |-> <<kind>>]

\* The first position at or after p that holds a brace, 0 when there is none.
NextBrace(t, p) ==
    IF \E r \in p..Len(t) : t[r] \in {"{", "}"}
    THEN CHOOSE r \in p..Len(t) :
            /\ t[r] \in {"{", "}"}
            /\ \A r2 \in p..(r - 1) : t[r2] \notin {"{", "}"}
    ELSE 0

RECURSIVE FormatFrom(_, _, _, _, _)
\* str.format over t from position p: "{{" and "}}" are the literal braces,
\* "{name}" is replaced by the value of name, a single brace, a brace inside
\* a field name and an unknown name raise.
FormatFrom(t, p, acc, ctx, q) ==
    IF p > Len(t) THEN [ok |-> TRUE, text |-> acc]
    ELSE IF t[p] = "{"
    THEN IF p < Len(t) /\ t[p + 1] = "{"
         THEN FormatFrom(t, p + 2, acc \o <<"{">>, ctx, q)
         ELSE LET r == NextBrace(t, p + 1)
                  field == SubSeq(t, p + 1, r - 1)
              IN  IF r = 0 \/ t[r] = "{" THEN Failed("ValueError")
                  ELSE IF field = ContextField
                       THEN FormatFrom(t, r + 1, acc \o ctx, ctx, q)
                  ELSE IF field = QuestionField
                       THEN FormatFrom(t, r + 1, acc \o q, ctx, q)
                  ELSE Failed("KeyError")
    ELSE IF t[p] = "}"
    THEN IF p < Len(t) /\ t[p + 1] = "}"
         THEN FormatFrom(t, p + 2, acc \o <<"}">>, ctx, q)
         ELSE Failed("ValueError")
    ELSE FormatFrom(t, p + 1, acc \o <<t[p]>>, ctx, q)

\* The prompt: the template with {context} and {question} substituted.
Format(t, ctx, q) == FormatFrom(t, 1, <<>>, ctx, q)

HistoryInputs ==
    Strings({"h", "{", "}"}, MaxHist)
        \cup {<<"{">> \o ContextField \o <<"}">>}

PromptInit ==
    /\ context \in Strings({"c", "{"}, MaxArg)
    /\ chat_history \in HistoryInputs
    /\ question \in Strings({"q", "}"}, MaxArg)
    /\ template = <<>>
    /\ prompt = [ok |-> FALSE, text |-> <<>>]
    /\ ppc = "input"

\* prompt_template = PromptTemplate(template=..., input_variables=[...])
GetPromptTemplate ==
    /\ ppc = "input"
    /\ template' = TemplateText(chat_history)
    /\ ppc' = "template"
    /\ UNCHANGED <<context, chat_history, question, prompt, vsVars, cleanVars>>

\* The chain fills the template's input variables for one question.
FormatPrompt ==
    /\ ppc = "template"
    /\ prompt' = Format(template, context, question)
    /\ ppc' = "formatted"
    /\ UNCHANGED <<context, chat_history, question, template, vsVars,
                   cleanVars>>

PromptNext == GetPromptTemplate \/ FormatPrompt

InitPrompt == VsIdle /\ CleanIdle /\ PromptInit

SpecPrompt == InitPrompt /\ [][PromptNext]_vars

\* s occurs in t at position p.
OccursAt(t, p, s) ==
    /\ p + Len(s) - 1 <= Len(t)
    /\ \A j \in 1..Len(s) : t[p + j - 1] = s[j]

\* a, b and c occur in t one after the other, in this order.
InOrder(t, a, b, c) ==
    \E x \in 1..(Len(t) + 1) :
        /\ OccursAt(t, x, a)
        /\ \E y \in (x + Len(a))..(Len(t) + 1) :
              /\ OccursAt(t, y, b)
              /\ \E z \in (y + Len(b))..(Len(t) + 1) : OccursAt(t, z, c)

\* C7: for every context, chat history and question the assembled prompt
\* holds the three strings verbatim, in the order context, history, question,
\* whatever the history is, braces included.
C7_PromptHoldsAll ==
    ppc = "formatted"
        => /\ prompt.ok
           /\ InOrder(prompt.text, context, chat_history, question)

Init == VsInit /\ CleanIdle /\ PromptIdle

Next == VsNext

Spec == Init /\ [][Next]_vars

====
